---- MODULE Spec2Model ----
(***************************************************************************)
(* A model of the GaloisField library (galois_field/): the sparse          *)
(* polynomial container FastPolynom, the field descriptor GF, the field    *)
(* element FFElement and the number-theory helpers of util.py.             *)
(*                                                                         *)
(* Python objects live in a heap: a sequence of FastPolynom records, an    *)
(* object's identity being its index.  Every method is an operator that    *)
(* takes the heap and returns a record [h, exc, v]: the heap after the     *)
(* call, the exception that left the call ("none" when it returned) and    *)
(* the value returned.  Python integers are unbounded, so coefficients are *)
(* plain integers; a dict is a function whose DOMAIN is its key set (all   *)
(* uses of a dict's order in the code go through max() or sort()).         *)
(***************************************************************************)
EXTENDS Integers, Sequences, FiniteSets, TLC

\* ------------------------------------------------------------------------
\* Local variables
\* ------------------------------------------------------------------------

\* (CHOOSE val \in { e : x \in {v} } : TRUE) is e with x standing for the
\* value of v: the assignment x = v of the code, followed by the statements
\* e.  v is evaluated once, however often e uses x, and before e.  In a chain
\*     (CHOOSE val \in { (CHOOSE val \in { e : y \in {w} } : TRUE)
\*                      : x \in {v} } : TRUE)
\* the assignments run from the last line up: x = v, then y = w, then e.
\* Loops are written as an operator for one iteration and an operator that
\* repeats it, and a long run of statements as operators for its parts, so
\* that no expression is nested deeper than the calls of the code are.

\* ------------------------------------------------------------------------
\* Results of calls
\* ------------------------------------------------------------------------

\* An exception: its class and, for FFOperationException, the operator
\* attribute its constructor stores (exceptions.py).
Exc(kind, operator) == [kind |-> kind, operator |-> operator]

FFOperationException(op) == Exc("FFOperationException", op)

PrimeFieldNoFitException == Exc("PrimeFieldNoFitException", "")

FPNegativeDegreeNotAllowed == Exc("FPNegativeDegreeNotAllowed", "")

\* The built-in exceptions the code lets escape.
IndexError == Exc("IndexError", "")

ZeroDivisionError == Exc("ZeroDivisionError", "")

AttributeError == Exc("AttributeError", "")

AssertionError == Exc("AssertionError", "")

TypeError == Exc("TypeError", "")

Ret(h, v) == [h |-> h, exc |-> "none", operator |-> "", v |-> v]

Raise(h, e) == [h |-> h, exc |-> e.kind, operator |-> e.operator, v |-> 0]

\* The exception of result r, to raise it again over another heap.
ExcOf(r) == Exc(r.exc, r.operator)

\* ------------------------------------------------------------------------
\* Dicts and lists
\* ------------------------------------------------------------------------

EmptyDict == <<>>

\* d restricted to the keys of S, built key by key
RECURSIVE DictOn(_, _)
DictOn(d, S) ==
    IF S = {} THEN <<>>
    ELSE LET k == CHOOSE y \in S : TRUE
         IN  (k :> d[k]) @@ DictOn(d, S \ {k})

\* d with key k removed (del d[k])
DictDel(d, k) == DictOn(d, (DOMAIN d) \ {k})

\* d with d[k] = a
DictSet(d, k, a) == (k :> a) @@ d

SetMax(S) == CHOOSE x \in S : \A y \in S : y <= x

SetMin(S) == CHOOSE x \in S : \A y \in S : x <= y

\* list.sort() of a list holding the distinct integers of S
RECURSIVE SortedList(_)
SortedList(S) ==
    IF S = {} THEN <<>>
    ELSE (CHOOSE val \in {
             <<x>> \o SortedList(S \ {x})
         : x \in {SetMin(S)} } : TRUE)

\* ------------------------------------------------------------------------
\* FastPolynom (fast_polynom.py)
\* ------------------------------------------------------------------------

\* A FastPolynom object: its three attributes.  cached_keys is None until
\* get_keys ran; None is modelled as the empty list, which is never read
\* while cache is False.
Polynom(container, cache, cached_keys) ==
    [container |-> container, cache |-> cache, cached_keys |-> cached_keys]

\* The "Cleanup zeros" loop of __init__: every key whose value is falsy is
\* deleted from the dict that was passed in.
CleanupZeros(d) == DictOn(d, {k \in DOMAIN d : d[k] # 0})

\* FastPolynom(container): allocates the object; v is its identity.
FastPolynom_init(h, container) ==
    Ret(Append(h, Polynom(CleanupZeros(container), FALSE, <<>>)), Len(h) + 1)

\* Fault injected into deepcopy: the polynomial itself is handed back, not
\* a copy of it.
deepcopy_shared(h, f) == Ret(h, f)

\* FastPolynom.deepcopy
deepcopy(h, f) == FastPolynom_init(h, h[f].container)

\* Fault injected into broadcast_modulo: no value is reduced.
broadcast_modulo_skipped(h, f, p) == Ret(h, 0)

\* FastPolynom.broadcast_modulo: every stored value is reduced in place; no
\* key is removed and the cache is left alone.  "%= 0" raises at the first
\* key.
broadcast_modulo(h, f, p) ==
    IF p = 0 /\ DOMAIN h[f].container # {} THEN Raise(h, ZeroDivisionError)
    ELSE
    Ret([h EXCEPT ![f].container = [k \in DOMAIN h[f].container |-> h[f].container[k] % p]], 0)

\* FastPolynom.get_max_degree: cached_keys[-1] raises IndexError on an empty
\* cached list.
get_max_degree(h, f) ==
    IF h[f].cache
    THEN IF Len(h[f].cached_keys) = 0
         THEN Raise(h, IndexError)
         ELSE Ret(h, h[f].cached_keys[Len(h[f].cached_keys)])
    ELSE IF DOMAIN h[f].container # {}
         THEN Ret(h, SetMax(DOMAIN h[f].container))
         ELSE Ret(h, -1)

\* FastPolynom.get_keys: the keys are reversed when rev is set and then
\* sorted, so the list is ascending either way; a cached list is returned
\* whatever rev is.
get_keys(h, f, rev) ==
    IF h[f].cache
    THEN Ret(h, h[f].cached_keys)
    ELSE (CHOOSE val \in {
             Ret([h EXCEPT ![f].cached_keys = keys, ![f].cache = TRUE], keys)
         : keys \in {SortedList(DOMAIN h[f].container)} } : TRUE)

\* FastPolynom.__getitem__: the value at key i, 0 for a key that is absent
get_value(h, f, i) ==
    IF i \notin DOMAIN h[f].container THEN Ret(h, 0) ELSE Ret(h, h[f].container[i])

\* FastPolynom.__getitem__
getitem(h, f, i) ==
    IF i # -1 THEN get_value(h, f, i)
    ELSE (CHOOSE val \in {
             IF md.exc # "none" THEN md ELSE get_value(h, f, md.v)
         : md \in {get_max_degree(h, f)} } : TRUE)

\* Fault injected into __setitem__: the cache flag is left as it was when a
\* degree is deleted or added.
setitem_cache_kept(h, f, i, a) ==
    IF i < 0 THEN Raise(h, FPNegativeDegreeNotAllowed)
    ELSE IF a = 0
    THEN IF i \in DOMAIN h[f].container
         THEN Ret([h EXCEPT ![f].container = DictDel(h[f].container, i)], 0)
         ELSE Ret(h, 0)
    ELSE Ret([h EXCEPT ![f].container = DictSet(h[f].container, i, a)], 0)

\* FastPolynom.__setitem__
setitem(h, f, i, a) ==
    IF i < 0 THEN Raise(h, FPNegativeDegreeNotAllowed)
    ELSE IF a = 0
    THEN IF i \in DOMAIN h[f].container
         THEN Ret([h EXCEPT ![f].cache = FALSE,
                            ![f].container = DictDel(h[f].container, i)], 0)
         ELSE Ret(h, 0)
    ELSE Ret([h EXCEPT ![f].cache = h[f].cache /\ i \in DOMAIN h[f].container,
                       ![f].container = DictSet(h[f].container, i, a)], 0)

\* FastPolynom.__eq__: both key lists are computed (and cached) first.
FastPolynom_eq(h, f, g) ==
    (CHOOSE val \in { (CHOOSE val \in {
        IF k1.v # k2.v THEN Ret(k2.h, FALSE)
        ELSE Ret(k2.h, \A n \in 1..Len(k1.v) :
                          getitem(k2.h, f, k1.v[n]).v = getitem(k2.h, g, k1.v[n]).v)
    : k2 \in {get_keys(k1.h, g, FALSE)} } : TRUE)
    : k1 \in {get_keys(h, f, FALSE)} } : TRUE)

\* util.get_sign
get_sign(x, ignore) == IF x < 0 THEN "- " ELSE IF ignore THEN "" ELSE "+ "

\* abs(x)
Abs(x) == IF x < 0 THEN 0 - x ELSE x

\* A string made by __str__ is kept as the list of its terms, each term the
\* three values that were formatted: the sign, the magnitude (NoMagnitude
\* where the code formats "" for it) and the degree (NoDegree for a term
\* formatted without "x^").
NoMagnitude == 0 - 1

NoDegree == 0 - 1

Term(sign, magnitude, degree) == <<sign, magnitude, degree>>

\* FastPolynom._element_str: "" for a stored zero
element_str(h, f, idx, empty) ==
    IF h[f].container[idx] # 0
    THEN << Term(get_sign(h[f].container[idx], empty),
                 IF h[f].container[idx] # 1 THEN Abs(h[f].container[idx])
                 ELSE NoMagnitude,
                 idx) >>
    ELSE <<>>

\* "if len(keys) != 1" of __str__, the term of the largest degree
str_largest(h, f, keys) ==
    IF Len(keys) # 1 /\ h[f].container[keys[Len(keys)]] # 0
    THEN element_str(h, f, keys[Len(keys)], TRUE)
    ELSE <<>>

\* "for i in keys[1:-1][::-1]" of __str__: keys[n] down to the second key
RECURSIVE str_intermediate(_, _, _, _, _)
str_intermediate(h, f, keys, n, s) ==
    IF n < 2 THEN s
    ELSE (CHOOSE val \in {
             str_intermediate(h, f, keys, n - 1, t)
         : t \in {s \o element_str(h, f, keys[n], s = <<>>)} } : TRUE)

\* The term of the lowest degree of __str__
str_lowest(h, f, keys, s) ==
    IF keys[1] = 0
    THEN IF h[f].container[0] # 0 \/ s = <<>>
         THEN s \o << Term(get_sign(h[f].container[0], s = <<>>),
                           Abs(h[f].container[0]), NoDegree) >>
         ELSE s
    ELSE s \o element_str(h, f, keys[1], s = <<>>)

\* FastPolynom.__str__: "0" for the empty polynomial
FastPolynom_str(h, f) ==
    (CHOOSE val \in {
        IF Len(k.v) = 0 THEN Ret(k.h, << Term("", 0, NoDegree) >>)
        ELSE Ret(k.h, str_lowest(k.h, f, k.v,
                        str_intermediate(k.h, f, k.v, Len(k.v) - 1,
                                         str_largest(k.h, f, k.v))))
    : k \in {get_keys(h, f, FALSE)} } : TRUE)

\* ------------------------------------------------------------------------
\* util.py
\* ------------------------------------------------------------------------

\* The result of a call that touches no object.
PRet(v) == [exc |-> "none", operator |-> "", v |-> v]

PRaise(e) == [exc |-> e.kind, operator |-> e.operator, v |-> 0]

\* The pair util.egcd returns: (None, None) or two integers.
Pair(s, t) == [none |-> FALSE, s |-> s, t |-> t]

NonePair == [none |-> TRUE, s |-> 0, t |-> 0]

\* The while loop of util.egcd.  mem is the list [mem0, mem1, mem2, mem3];
\* mem3 starts as None (m3none).  a // b and a % b raise ZeroDivisionError
\* when b reached 0.
RECURSIVE egcd_loop(_, _, _, _, _, _, _)
egcd_loop(a, b, mem0, mem1, mem2, mem3, m3none) ==
    IF b = 1 THEN PRet(Pair(mem3, mem1))
    ELSE IF b = 0 THEN PRaise(ZeroDivisionError)
    ELSE LET q == a \div b
         IN  IF m3none
             THEN egcd_loop(b, a % b, mem1, mem0 - mem1 * q, mem2, 1, FALSE)
             ELSE egcd_loop(b, a % b, mem1, mem0 - mem1 * q, mem3, mem2 - mem3 * q, FALSE)

\* util.egcd(a, b), called with a > b >= 0
egcd(a, b) ==
    IF b = 0 THEN PRaise(ZeroDivisionError)
    ELSE IF a % b = 0 THEN PRet(NonePair)
    ELSE egcd_loop(a, b, 0, 1, 0, 0, TRUE)

\* The while loop of util.is_prime: trial division by i - 1 and i + 1.
RECURSIVE is_prime_loop(_, _)
is_prime_loop(n, i) ==
    IF i * i > n THEN TRUE
    ELSE IF n % (i - 1) = 0 \/ n % (i + 1) = 0 THEN FALSE
    ELSE is_prime_loop(n, i + 6)

\* util.is_prime
is_prime(n) ==
    IF n <= 1 THEN FALSE
    ELSE IF n <= 3 THEN TRUE
    ELSE IF n % 2 = 0 \/ n % 3 = 0 THEN FALSE
    ELSE is_prime_loop(n, 6)

\* FastPolynom.compute: total = total * x + self[i] over get_keys(rev=True),
\* which lists the keys in ascending order (see get_keys).
RECURSIVE compute_loop(_, _, _, _, _, _)
compute_loop(h, f, keys, n, x, total) ==
    IF n > Len(keys) THEN total
    ELSE compute_loop(h, f, keys, n + 1, x, total * x + getitem(h, f, keys[n]).v)

compute(h, f, x) ==
    (CHOOSE val \in {
        Ret(k.h, compute_loop(k.h, f, k.v, 1, x, 0))
    : k \in {get_keys(h, f, TRUE)} } : TRUE)

\* functools.reduce(lambda x, y: x * y, primes) of a non-empty list
RECURSIVE reduce_mul(_)
reduce_mul(primes) ==
    IF Len(primes) = 1 THEN primes[1]
    ELSE reduce_mul(SubSeq(primes, 1, Len(primes) - 1)) * primes[Len(primes)]

\* util.check_irr(poly, primes, px): the constant term must be the product
\* of primes and neither q nor -q may be a root mod px, for q in primes.
check_irr(h, poly, primes, px) ==
    IF getitem(h, poly, 0).v # reduce_mul(primes)
    THEN Ret(h, FALSE)
    ELSE (CHOOSE val \in {
             Ret(k.h, \A n \in 1..Len(primes) :
                        /\ compute(k.h, poly, primes[n]).v % px # 0
                        /\ compute(k.h, poly, 0 - primes[n]).v % px # 0)
         : k \in {get_keys(h, poly, TRUE)} } : TRUE)

\* ------------------------------------------------------------------------
\* GF (GF.py): the field descriptor
\* ------------------------------------------------------------------------

\* None, where an object identity is expected (identities start at 1).
None == 0

\* A GF object: p, m and irr[0] (the identity of the modulus polynomial, or
\* None).  irr[1], the list of primes, is read by __init__ only.
Field(p, m, irr) == [p |-> p, m |-> m, irr |-> irr]

\* GF.__init__(p, m, (irr0, primes), prime_check).  primes is a list, the
\* empty list standing for None (both are falsy at "if irr[1]").
GF_init(h, p, m, irr0, primes, prime_check) ==
    IF prime_check /\ ~is_prime(p) THEN Raise(h, AssertionError)
    ELSE IF ~(m > 0) THEN Raise(h, AssertionError)
    ELSE IF m = 1 THEN Ret(h, Field(p, m, irr0))
    ELSE IF irr0 = None THEN Raise(h, AttributeError)
    ELSE (CHOOSE val \in {
             IF md.exc # "none" THEN md
             ELSE IF md.v # m THEN Raise(h, AssertionError)
             ELSE (CHOOSE val \in {
                      IF b.exc # "none" THEN b
                      ELSE IF Len(primes) = 0 THEN Ret(b.h, Field(p, m, irr0))
                      ELSE IF \E n \in 1..Len(primes) :
                                 ~(primes[n] = 1 \/ is_prime(primes[n]))
                      THEN Raise(b.h, AssertionError)
                      ELSE (CHOOSE val \in {
                               IF c.v THEN Ret(c.h, Field(p, m, irr0))
                               ELSE Raise(c.h, AssertionError)
                           : c \in {check_irr(b.h, irr0, primes, p)} } : TRUE)
                  : b \in {broadcast_modulo(h, irr0, p)} } : TRUE)
         : md \in {get_max_degree(h, irr0)} } : TRUE)

\* GF.__eq__: "and" stops at the first false conjunct.  None == None is
\* True; comparing a FastPolynom with None ends in None.get_keys().
GF_eq(h, ff, x) ==
    IF ff.p # x.p \/ ff.m # x.m THEN Ret(h, FALSE)
    ELSE IF ff.irr = None /\ x.irr = None THEN Ret(h, TRUE)
    ELSE IF ff.irr = None THEN Raise(get_keys(h, x.irr, FALSE).h, AttributeError)
    ELSE IF x.irr = None THEN Raise(get_keys(h, ff.irr, FALSE).h, AttributeError)
    ELSE FastPolynom_eq(h, ff.irr, x.irr)

\* GF.__ne__
GF_ne(h, ff, x) ==
    (CHOOSE val \in {
        IF e.exc # "none" THEN e ELSE Ret(e.h, ~e.v)
    : e \in {GF_eq(h, ff, x)} } : TRUE)

\* ------------------------------------------------------------------------
\* FFElement (GF.py): the field element
\* ------------------------------------------------------------------------

\* An FFElement object: ff (a GF object) and container (the identity of a
\* FastPolynom).  kind tells it from the other values a caller may pass as
\* an operand: a bare FastPolynom or an integer, which have no attribute ff.
Element(ff, container) == [kind |-> "FFElement", ff |-> ff, container |-> container]

BarePolynom(container) == [kind |-> "FastPolynom", ff |-> Field(0, 0, None), container |-> container]

BareInt == [kind |-> "int", ff |-> Field(0, 0, None), container |-> None]

\* The two statements of "for j in keys_pol2" of _div for the key j:
\* num[d + j] -= (pol2[j] * fac) % p and then num[d + j] %= p, each a
\* __getitem__ followed by a __setitem__.
div_subtract_step(h, num, pol2, j, d, fac, p) ==
    (CHOOSE val \in {
        setitem(s1.h, num, d + j, getitem(s1.h, num, d + j).v % p)
    : s1 \in {setitem(h, num, d + j,
                      getitem(h, num, d + j).v - ((getitem(h, pol2, j).v * fac) % p))} } : TRUE)

\* "for j in keys_pol2" of _div, from the n-th key on
RECURSIVE div_subtract(_, _, _, _, _, _, _, _)
div_subtract(h, num, pol2, keys_pol2, n, d, fac, p) ==
    IF n > Len(keys_pol2) THEN Ret(h, 0)
    ELSE (CHOOSE val \in {
             div_subtract(s.h, num, pol2, keys_pol2, n + 1, d, fac, p)
         : s \in {div_subtract_step(h, num, pol2, keys_pol2[n], d, fac, p)} } : TRUE)

\* fac of one iteration of "while d1 >= d2" of _div, for x = num[d1]:
\* x // key, or x * egcd(self.ff.p, key)[1] % self.ff.p.  "% 0" and "// 0"
\* raise ZeroDivisionError, and so does egcd's "a % b"; egcd's (None, None)
\* makes "x * None" raise TypeError.
div_fac(ffp, x, key) ==
    IF key = 0 THEN PRaise(ZeroDivisionError)
    ELSE IF x % key = 0 THEN PRet(x \div key)
    ELSE (CHOOSE val \in {
             IF e.exc # "none" THEN e
             ELSE IF e.v.none THEN PRaise(TypeError)
             ELSE PRet((x * e.v.t) % ffp)
         : e \in {egcd(ffp, key)} } : TRUE)

\* One iteration of "while d1 >= d2" of _div; v is the new d1.  An
\* iteration that leaves num as it was (fac is 0 and d1 unchanged) repeats
\* for ever: the call never returns ("hang").
div_step(h, ffp, num, pol2, keys_pol2, divs, key, d1, d2, p) ==
    (CHOOSE val \in {
        IF fac.exc # "none" THEN Raise(h, ExcOf(fac))
        ELSE (CHOOSE val \in { (CHOOSE val \in {
                 IF md.exc # "none" THEN md
                 ELSE IF fac.v = 0 /\ md.v = d1 THEN Raise(sub.h, Exc("hang", ""))
                 ELSE Ret(sub.h, md.v)
             : md \in {get_max_degree(sub.h, num)} } : TRUE)
             : sub \in {IF fac.v # 0
                        THEN div_subtract(setitem(h, divs, d1 - d2, fac.v).h, num, pol2,
                                          keys_pol2, 1, d1 - d2, fac.v, p)
                        ELSE setitem(h, divs, d1 - d2, fac.v)} } : TRUE)
    : fac \in {div_fac(ffp, getitem(h, num, d1).v, key)} } : TRUE)

\* "while d1 >= d2" of _div
RECURSIVE div_loop(_, _, _, _, _, _, _, _, _, _)
div_loop(h, ffp, num, pol2, keys_pol2, divs, key, d1, d2, p) ==
    IF ~(d1 >= d2) THEN Ret(h, <<divs, num>>)
    ELSE (CHOOSE val \in {
             IF s.exc # "none" THEN s
             ELSE div_loop(s.h, ffp, num, pol2, keys_pol2, divs, key, s.v, d2, p)
         : s \in {div_step(h, ffp, num, pol2, keys_pol2, divs, key, d1, d2, p)} } : TRUE)

\* Fault injected into _div: pol1 is returned as the remainder, undivided.
FFElement_div_skipped(h, ff, pol1, pol2, p, copy) == Ret(h, <<None, pol1>>)

\* "d1 = pol1.get_max_degree()" and "d2 = pol2.get_max_degree()" of _div; v
\* is the pair (d1, d2).
div_degrees(h, pol1, pol2) ==
    (CHOOSE val \in { (CHOOSE val \in {
        IF m1.exc # "none" THEN m1
        ELSE IF m2.exc # "none" THEN m2
        ELSE Ret(h, <<m1.v, m2.v>>)
    : m2 \in {get_max_degree(h, pol2)} } : TRUE)
    : m1 \in {get_max_degree(h, pol1)} } : TRUE)

\* "keys_pol2 = ..." to "key = pol2[d2]" of _div; v is the tuple
\* (keys_pol2, num, divs, key).
div_begin(h, pol1, pol2, d2, copy) ==
    (CHOOSE val \in { (CHOOSE val \in { (CHOOSE val \in { (CHOOSE val \in {
        IF key.exc # "none" THEN Raise(divs.h, ExcOf(key))
        ELSE Ret(divs.h, <<k.v, c.v, divs.v, key.v>>)
    : key \in {getitem(divs.h, pol2, d2)} } : TRUE)
    : divs \in {FastPolynom_init(c.h, EmptyDict)} } : TRUE)
    : c \in {IF copy THEN deepcopy(k.h, pol1) ELSE Ret(k.h, pol1)} } : TRUE)
    : k \in {get_keys(h, pol2, TRUE)} } : TRUE)

\* FFElement._div(pol1, pol2, p, copy) of an element of field ff; v is the
\* pair (quotient, remainder).  "d1 == pol1.container" compares an int with a
\* dict and is False, so the special case of lines 195-199 is entered only
\* for d2 == 0 with an empty pol2.container, where it raises.
FFElement_div(h, ff, pol1, pol2, p, copy) ==
    (CHOOSE val \in {
        IF d.exc # "none" THEN d
        ELSE IF d.v[1] < d.v[2]
        THEN (CHOOSE val \in {
                 Ret(z.h, <<z.v, pol1>>)
             : z \in {FastPolynom_init(h, EmptyDict)} } : TRUE)
        ELSE IF d.v[2] = 0 /\ DOMAIN h[pol2].container = {}
        THEN Raise(h, FFOperationException("//"))
        ELSE (CHOOSE val \in {
                 IF s.exc # "none" THEN s
                 ELSE div_loop(s.h, ff.p, s.v[2], pol2, s.v[1], s.v[3], s.v[4],
                               d.v[1], d.v[2], p)
             : s \in {div_begin(h, pol1, pol2, d.v[2], copy)} } : TRUE)
    : d \in {div_degrees(h, pol1, pol2)} } : TRUE)

\* FFElement._fit: FFElement has no attribute gen_zero, so the first
\* statement of the try block raises AttributeError and the handler turns it
\* into FFOperationException("fit"); lines 467-468 never run.
FFElement_fit(h, self) == Raise(h, FFOperationException("fit"))

\* FFElement.__init__(ff, container): container is the identity of a
\* FastPolynom (an object is always truthy) or None.
FFElement_init(h, ff, container) ==
    IF container = None
    THEN (CHOOSE val \in {
             Ret(z.h, Element(ff, z.v))
         : z \in {FastPolynom_init(h, EmptyDict)} } : TRUE)
    ELSE (CHOOSE val \in { (CHOOSE val \in {
             IF md.exc # "none" THEN md
             ELSE IF md.v >= ff.m
             THEN IF ff.m # 1
                  THEN FFElement_fit(b.h, Element(ff, container))
                  ELSE Raise(b.h, PrimeFieldNoFitException)
             ELSE Ret(b.h, Element(ff, container))
         : md \in {get_max_degree(b.h, container)} } : TRUE)
         : b \in {broadcast_modulo(h, container, ff.p)} } : TRUE)

\* FFElement.gen_one
gen_one(h, ff) ==
    (CHOOSE val \in {
        FFElement_init(f.h, ff, f.v)
    : f \in {FastPolynom_init(h, (0 :> 1))} } : TRUE)

\* FFElement.is_one
is_one(h, self) ==
    (CHOOSE val \in {
        IF md.exc # "none" THEN md
        ELSE Ret(h, md.v = 0 /\ getitem(h, self.container, 0).v = 1)
    : md \in {get_max_degree(h, self.container)} } : TRUE)

\* FFElement.is_zero
is_zero(h, self) ==
    (CHOOSE val \in {
        IF md.exc # "none" THEN md
        ELSE Ret(h, md.v = 0 /\ DOMAIN h[self.container].container = {})
    : md \in {get_max_degree(h, self.container)} } : TRUE)

\* FFElement.is_integer
is_integer(h, self) ==
    (CHOOSE val \in {
        IF md.exc # "none" THEN md
        ELSE Ret(h, md.v = 0 /\ getitem(h, self.container, 0).v # 0)
    : md \in {get_max_degree(h, self.container)} } : TRUE)

\* Fault injected into the "except AttributeError" handlers: the
\* AttributeError is left to propagate.
ExceptAttributeError_skipped(r, op) == r

\* "except AttributeError: raise FFOperationException(op, ...)"
ExceptAttributeError(r, op) ==
    IF r.exc = "AttributeError" THEN Raise(r.h, FFOperationException(op)) ELSE r

\* Fault injected into "assert self.ff == x.ff": the descriptors are not
\* compared.
AssertSameField_skipped(h, self, x) ==
    IF x.kind # "FFElement" THEN Raise(h, AttributeError) ELSE Ret(h, 0)

\* "assert self.ff == x.ff": x.ff raises AttributeError when x is no
\* FFElement; v is unused.
AssertSameField(h, self, x) ==
    IF x.kind # "FFElement" THEN Raise(h, AttributeError)
    ELSE (CHOOSE val \in {
             IF e.exc # "none" THEN e
             ELSE IF ~e.v THEN Raise(e.h, AssertionError)
             ELSE Ret(e.h, 0)
         : e \in {GF_eq(h, self.ff, x.ff)} } : TRUE)

\* FFElement.__eq__
FFElement_eq(h, self, x) ==
    (CHOOSE val \in {
        IF e.exc # "none" THEN e
        ELSE IF ~e.v THEN Ret(e.h, FALSE)
        ELSE FastPolynom_eq(e.h, self.container, x.container)
    : e \in {GF_eq(h, self.ff, x.ff)} } : TRUE)

\* "for i in range(self.ff.m)" of __add__ (sign = 1) and __sub__ (sign = -1)
RECURSIVE add_loop(_, _, _, _, _, _)
add_loop(h, self, x, res, i, sign) ==
    IF i >= self.ff.m THEN Ret(h, res)
    ELSE (CHOOSE val \in {
             add_loop(s.h, self, x, res, i + 1, sign)
         : s \in {setitem(h, res.container, i,
                          (getitem(h, self.container, i).v
                           + sign * getitem(h, x.container, i).v) % self.ff.p)} } : TRUE)

\* FFElement.__add__
FFElement_add(h, self, x) ==
    (CHOOSE val \in {
        IF a.exc # "none" THEN ExceptAttributeError(a, "+")
        ELSE (CHOOSE val \in {
                 add_loop(res.h, self, x, res.v, 0, 1)
             : res \in {FFElement_init(a.h, self.ff, None)} } : TRUE)
    : a \in {AssertSameField(h, self, x)} } : TRUE)

\* Fault injected into __sub__: the operands are added.
FFElement_sub_added(h, self, x) == FFElement_add(h, self, x)

\* FFElement.__sub__
FFElement_sub(h, self, x) ==
    (CHOOSE val \in {
        IF a.exc # "none" THEN ExceptAttributeError(a, "-")
        ELSE (CHOOSE val \in {
                 add_loop(res.h, self, x, res.v, 0, -1)
             : res \in {FFElement_init(a.h, self.ff, None)} } : TRUE)
    : a \in {AssertSameField(h, self, x)} } : TRUE)

\* The statement of the two nested loops of __mul__ for the pair (i, j):
\* res[i + j] += (self[i] * x[j]) % p and then res[i + j] %= p.
\* i + j is never negative, so neither __setitem__ raises.
mul_step(h, self, x, res, i, j) ==
    (CHOOSE val \in {
        Ret(setitem(s1.h, res, i + j, getitem(s1.h, res, i + j).v % self.ff.p).h, res)
    : s1 \in {setitem(h, res, i + j,
                      getitem(h, res, i + j).v
                      + ((getitem(h, self.container, i).v
                          * getitem(h, x.container, j).v) % self.ff.p))} } : TRUE)

\* The two nested loops of __mul__ over the pairs (i, j) numbered
\* i * m + j in lo..hi-1, in their order: the pairs of the first half and
\* then those of the second.
RECURSIVE mul_loop(_, _, _, _, _, _)
mul_loop(h, self, x, res, lo, hi) ==
    IF hi <= lo + 1
    THEN IF hi <= lo THEN Ret(h, res)
         ELSE mul_step(h, self, x, res, lo \div self.ff.m, lo % self.ff.m)
    ELSE (CHOOSE val \in {
             mul_loop(r.h, self, x, res, (lo + hi) \div 2, hi)
         : r \in {mul_loop(h, self, x, res, lo, (lo + hi) \div 2)} } : TRUE)

\* FFElement.__mul__
FFElement_mul(h, self, x) ==
    (CHOOSE val \in {
        IF a.exc # "none" THEN ExceptAttributeError(a, "*")
        ELSE (CHOOSE val \in { (CHOOSE val \in { (CHOOSE val \in {
                 IF d.exc # "none" THEN ExceptAttributeError(d, "*")
                 ELSE ExceptAttributeError(FFElement_init(d.h, self.ff, d.v[2]), "*")
             : d \in {IF self.ff.m # 1
                      THEN FFElement_div(r1.h, self.ff, r1.v, self.ff.irr, self.ff.p, TRUE)
                      ELSE Ret(r1.h, <<None, r1.v>>)} } : TRUE)
             : r1 \in {mul_loop(r0.h, self, x, r0.v, 0, self.ff.m * self.ff.m)} } : TRUE)
             : r0 \in {FastPolynom_init(a.h, EmptyDict)} } : TRUE)
    : a \in {AssertSameField(h, self, x)} } : TRUE)

\* FFElement.__floordiv__
FFElement_floordiv(h, self, x) ==
    (CHOOSE val \in {
        IF a.exc # "none" THEN ExceptAttributeError(a, "//")
        ELSE (CHOOSE val \in {
            IF z.exc # "none" THEN z
            ELSE IF z.v THEN Raise(z.h, FFOperationException("//"))
            ELSE IF self.ff.m = 1
            THEN (CHOOSE val \in { (CHOOSE val \in {
                     IF d = 0 THEN Raise(res.h, ZeroDivisionError)
                     ELSE FFElement_init(
                              setitem(res.h, res.v, 0,
                                      getitem(res.h, self.container, 0).v \div d).h,
                              self.ff, res.v)
                 : d \in {getitem(res.h, x.container, 0).v} } : TRUE)
                 : res \in {FastPolynom_init(z.h, EmptyDict)} } : TRUE)
            ELSE (CHOOSE val \in {
                     IF d.exc # "none" THEN ExceptAttributeError(d, "//")
                     ELSE ExceptAttributeError(FFElement_init(d.h, self.ff, d.v[1]), "//")
                 : d \in {FFElement_div(z.h, self.ff, self.container, x.container,
                                         self.ff.p, TRUE)} } : TRUE)
        : z \in {is_zero(a.h, self)} } : TRUE)
    : a \in {AssertSameField(h, self, x)} } : TRUE)

\* FFElement(self.ff, x2) for "_, x2 = self._div(pol, x.container,
\* self.ff.p)": the element of the remainder of the polynomial pol by x.
mod_reduce(h, self, x, pol) ==
    (CHOOSE val \in {
        IF dv.exc # "none" THEN dv
        ELSE FFElement_init(dv.h, self.ff, dv.v[2])
    : dv \in {FFElement_div(h, self.ff, pol, x.container, self.ff.p, TRUE)} } : TRUE)

\* pre[k] for k = 1 and k = 2: FastPolynom({k: 1}) reduced by x
mod_power(h, self, x, k) ==
    (CHOOSE val \in {
        mod_reduce(f.h, self, x, f.v)
    : f \in {FastPolynom_init(h, (k :> 1))} } : TRUE)

\* One iteration of "while a * 2 <= d" of __mod__: (pre[a] * pre[a])
\* reduced by x; v is the new pre[2a].
mod_square(h, self, x, e) ==
    (CHOOSE val \in {
        IF sq.exc # "none" THEN sq
        ELSE mod_reduce(sq.h, self, x, sq.v.container)
    : sq \in {FFElement_mul(h, e, e)} } : TRUE)

\* "while a * 2 <= d" of __mod__.  pre is the dict of the precomputed
\* elements.
RECURSIVE mod_pre_loop(_, _, _, _, _, _)
mod_pre_loop(h, self, x, pre, a, d) ==
    IF ~(a * 2 <= d) THEN Ret(h, pre)
    ELSE (CHOOSE val \in {
             IF e.exc # "none" THEN e
             ELSE mod_pre_loop(e.h, self, x, DictSet(pre, a * 2, e.v), a * 2, d)
         : e \in {mod_square(h, self, x, pre[a])} } : TRUE)

\* "temp *= pre[j]" and the _div(..., copy=False) that reduces temp's
\* polynomial in place; v is the new temp.
mod_bit_step(h, self, x, temp, e) ==
    (CHOOSE val \in {
        IF t.exc # "none" THEN t
        ELSE (CHOOSE val \in {
                 IF dv.exc # "none" THEN dv
                 ELSE Ret(dv.h, t.v)
             : dv \in {FFElement_div(t.h, self.ff, t.v.container, x.container,
                                     self.ff.p, FALSE)} } : TRUE)
    : t \in {FFElement_mul(h, temp, e)} } : TRUE)

\* "while i" of __mod__: the step above for every set bit of i
RECURSIVE mod_bits(_, _, _, _, _, _, _)
mod_bits(h, self, x, pre, temp, i, j) ==
    IF i = 0 THEN Ret(h, temp)
    ELSE IF i % 2 = 1
    THEN IF j \notin DOMAIN pre THEN Raise(h, Exc("KeyError", ""))
         ELSE (CHOOSE val \in {
                  IF t.exc # "none" THEN t
                  ELSE mod_bits(t.h, self, x, pre, t.v, i \div 2, j * 2)
              : t \in {mod_bit_step(h, self, x, temp, pre[j])} } : TRUE)
    ELSE mod_bits(h, self, x, pre, temp, i \div 2, j * 2)

\* One iteration of "for i in self.container.get_keys(rev=True)" of
\* __mod__; v is the new res.
mod_key_step(h, self, x, pre, i, res) ==
    (CHOOSE val \in {
        IF t.exc # "none" THEN t
        ELSE FFElement_add(t.h, res, t.v)
    : t \in {(CHOOSE val \in { (CHOOSE val \in {
                 IF t0.exc # "none" THEN t0
                 ELSE mod_bits(t0.h, self, x, pre, t0.v, i, 1)
             : t0 \in {FFElement_init(f.h, self.ff, f.v)} } : TRUE)
             : f \in {FastPolynom_init(h, (0 :> getitem(h, self.container, i).v))} } : TRUE)} } : TRUE)

\* "for i in self.container.get_keys(rev=True)" of __mod__, from the n-th
\* key on
RECURSIVE mod_keys(_, _, _, _, _, _, _)
mod_keys(h, self, x, pre, keys, n, res) ==
    IF n > Len(keys) THEN Ret(h, res)
    ELSE (CHOOSE val \in {
             IF s.exc # "none" THEN s
             ELSE mod_keys(s.h, self, x, pre, keys, n + 1, s.v)
         : s \in {mod_key_step(h, self, x, pre, keys[n], res)} } : TRUE)

\* "d = ..." to the end of the "while a * 2 <= d" loop of __mod__; v is
\* pre.
mod_pre(h, self, x) ==
    (CHOOSE val \in {
        IF d.exc # "none" THEN d
        ELSE (CHOOSE val \in {
                 IF e1.exc # "none" THEN e1
                 ELSE (CHOOSE val \in {
                          IF e2.exc # "none" THEN e2
                          ELSE mod_pre_loop(e2.h, self, x, (1 :> e1.v) @@ (2 :> e2.v), 2, d.v)
                      : e2 \in {mod_power(e1.h, self, x, 2)} } : TRUE)
             : e1 \in {mod_power(h, self, x, 1)} } : TRUE)
    : d \in {get_max_degree(h, self.container)} } : TRUE)

\* "res = FFElement(self.ff)" and the list the for loop of __mod__ runs
\* over; v is the pair (res, keys).
mod_res(h, self) ==
    (CHOOSE val \in { (CHOOSE val \in {
        Ret(k.h, <<res.v, k.v>>)
    : k \in {get_keys(res.h, self.container, TRUE)} } : TRUE)
    : res \in {FFElement_init(h, self.ff, None)} } : TRUE)

\* The extension-field branch of __mod__ (lines 348-373)
mod_extension(h, self, x) ==
    (CHOOSE val \in {
        IF pre.exc # "none" THEN pre
        ELSE (CHOOSE val \in {
                 mod_keys(s.h, self, x, pre.v, s.v[2], 1, s.v[1])
             : s \in {mod_res(pre.h, self)} } : TRUE)
    : pre \in {mod_pre(h, self, x)} } : TRUE)

\* FFElement.__mod__.  In a prime field FastPolynom(self.ff) is handed the GF
\* object as its dict: the object is truthy and container.keys() raises
\* AttributeError.
FFElement_mod(h, self, x) ==
    (CHOOSE val \in {
        IF a.exc # "none" THEN ExceptAttributeError(a, "%")
        ELSE IF self.ff.m = 1 THEN Raise(a.h, FFOperationException("%"))
        ELSE ExceptAttributeError(mod_extension(a.h, self, x), "%")
    : a \in {AssertSameField(h, self, x)} } : TRUE)

RECURSIVE FFElement_inverse(_, _)

\* One iteration of "while not b.is_integer()" of FFElement.egcd; v is the
\* pair (mem[0] - mem[1] * (a // b), a % b): the new mem[1] and the new b.
egcd_step(h, a, b, mem0, mem1) ==
    (CHOOSE val \in {
        IF nm.exc # "none" THEN nm
        ELSE (CHOOSE val \in {
                 IF r.exc # "none" THEN r
                 ELSE Ret(r.h, <<nm.v, r.v>>)
             : r \in {FFElement_mod(nm.h, a, b)} } : TRUE)
    : nm \in {(CHOOSE val \in {
                  IF tq.exc # "none" THEN tq
                  ELSE FFElement_sub(tq.h, mem0, tq.v)
              : tq \in {(CHOOSE val \in {
                            IF q.exc # "none" THEN q
                            ELSE FFElement_mul(q.h, mem1, q.v)
                        : q \in {FFElement_floordiv(h, a, b)} } : TRUE)} } : TRUE)} } : TRUE)

\* "while not b.is_integer()" of FFElement.egcd and the return statement.
\* The loop's course depends on the polynomials of a and b only; seen holds
\* the pairs it met, and meeting one again means the loop never ends
\* ("hang").
RECURSIVE FFElement_egcd_loop(_, _, _, _, _, _)
FFElement_egcd_loop(h, a, b, mem0, mem1, seen) ==
    (CHOOSE val \in {
        IF bi.exc # "none" THEN bi
        ELSE IF bi.v
        THEN (CHOOSE val \in {
                 IF inv.exc # "none" THEN inv ELSE FFElement_mul(inv.h, mem1, inv.v)
             : inv \in {FFElement_inverse(h, b)} } : TRUE)
        ELSE IF <<h[a.container], h[b.container]>> \in seen THEN Raise(h, Exc("hang", ""))
        ELSE (CHOOSE val \in {
                 IF s.exc # "none" THEN s
                 ELSE FFElement_egcd_loop(s.h, b, s.v[2], mem1, s.v[1],
                        seen \cup {<<h[a.container], h[b.container]>>})
             : s \in {egcd_step(h, a, b, mem0, mem1)} } : TRUE)
    : bi \in {is_integer(h, b)} } : TRUE)

\* "(a % b).is_zero()" of FFElement.egcd
egcd_divides(h, a, b) ==
    (CHOOSE val \in {
        IF r.exc # "none" THEN r ELSE is_zero(r.h, r.v)
    : r \in {FFElement_mod(h, a, b)} } : TRUE)

\* "mem = [FFElement(a.ff), FFElement.gen_one(a.ff)]"; v is the pair
\* (mem[0], mem[1]).
egcd_mem(h, ff) ==
    (CHOOSE val \in { (CHOOSE val \in {
        IF m1.exc # "none" THEN m1 ELSE Ret(m1.h, <<m0.v, m1.v>>)
    : m1 \in {gen_one(m0.h, ff)} } : TRUE)
    : m0 \in {FFElement_init(h, ff, None)} } : TRUE)

\* FFElement.egcd(a, b)
FFElement_egcd(h, a, b) ==
    (CHOOSE val \in {
        IF z.exc # "none" THEN z
        ELSE IF z.v THEN Raise(z.h, Exc("Exception", ""))
        ELSE (CHOOSE val \in {
                 IF mem.exc # "none" THEN mem
                 ELSE FFElement_egcd_loop(mem.h, a, b, mem.v[1], mem.v[2], {})
             : mem \in {egcd_mem(z.h, a.ff)} } : TRUE)
    : z \in {egcd_divides(h, a, b)} } : TRUE)

\* FFElement.inverse
FFElement_inverse(h, self) ==
    (CHOOSE val \in {
        IF z.exc # "none" THEN z
        ELSE IF z.v THEN Raise(h, FFOperationException("^-1"))
        ELSE IF is_one(h, self).v THEN ExceptAttributeError(gen_one(h, self.ff), "^-1")
        ELSE IF self.ff.m = 1 \/ get_max_degree(h, self.container).v = 0
        THEN (CHOOSE val \in { (CHOOSE val \in {
                 IF e.exc # "none" THEN Raise(res.h, ExcOf(e))
                 ELSE IF e.v.none THEN Raise(res.h, TypeError)
                 ELSE Ret(setitem(res.h, res.v.container, 0, e.v.t % self.ff.p).h, res.v)
             : e \in {egcd(self.ff.p, getitem(res.h, self.container, 0).v)} } : TRUE)
             : res \in {FFElement_init(h, self.ff, None)} } : TRUE)
        ELSE (CHOOSE val \in {
                 IF irr.exc # "none" THEN ExceptAttributeError(irr, "^-1")
                 ELSE ExceptAttributeError(
                        FFElement_egcd(irr.h, Element(self.ff, self.ff.irr), self), "^-1")
             : irr \in {FFElement_init(h, self.ff, self.container)} } : TRUE)
    : z \in {is_zero(h, self)} } : TRUE)

\* FFElement.__truediv__: an FFOperationException of any operator raised
\* below is raised again as FFOperationException("/").
FFElement_truediv(h, self, x) ==
    (CHOOSE val \in {
        IF r.exc \in {"FFOperationException", "AttributeError"}
        THEN Raise(r.h, FFOperationException("/"))
        ELSE r
    : r \in {(CHOOSE val \in {
                 IF a.exc # "none" THEN a
                 ELSE (CHOOSE val \in {
                          IF inv.exc # "none" THEN inv
                          ELSE FFElement_mul(inv.h, self, inv.v)
                      : inv \in {FFElement_inverse(a.h, x)} } : TRUE)
             : a \in {AssertSameField(h, self, x)} } : TRUE)} } : TRUE)

\* ------------------------------------------------------------------------
\* A caller of the library, as a state machine.  The caller builds one
\* descriptor and then works with two elements of it: a, an element it
\* keeps, and r, the element most recently returned to it.  Every call
\* takes its operands among a and r (the same variable twice is the same
\* object twice, and so are a and r after "a = r": same), or, as right
\* operand, an element of another descriptor or a value that is no element.
\* The caller looks at the outcome of a call (last) and forgets it before
\* its next call.
\* ------------------------------------------------------------------------

\* Inputs of the constructor: coefficients from -CoefSlack to
\* p - 1 + CoefSlack, at degrees up to m - 1 + DegSlack, MaxTerms of them.
CoefSlack == 1

DegSlack == 1

MaxTerms == 1

\* The descriptors the caller builds: GF(p) and GF(p, m, (FastPolynom(irr), None))
FieldTable ==
    << [p |-> 2, m |-> 1, irr |-> EmptyDict],
       [p |-> 3, m |-> 1, irr |-> EmptyDict],
       [p |-> 2, m |-> 2, irr |-> (0 :> 1 @@ 1 :> 1 @@ 2 :> 1)],
       [p |-> 3, m |-> 2, irr |-> (0 :> 1 @@ 2 :> 1)],
       [p |-> 3, m |-> 2, irr |-> (0 :> 2 @@ 1 :> 1 @@ 2 :> 1)],
       [p |-> 2, m |-> 3, irr |-> (0 :> 1 @@ 1 :> 1 @@ 3 :> 1)],
       [p |-> 2, m |-> 4, irr |-> (0 :> 1 @@ 1 :> 1 @@ 4 :> 1)] >>

VARIABLES fld, irr, a, r, same, last, gf, gx

vars == <<fld, irr, a, r, same, last, gf, gx>>

\* A FastPolynom() nobody wrote to
NoPoly == Polynom(EmptyDict, FALSE, <<>>)

\* GF(...) of entry g of the table; v is the descriptor.  A prime field has
\* no modulus polynomial: the object allocated for it here is never used.
NewField(h, g) ==
    (CHOOSE val \in { (CHOOSE val \in {
        GF_init(i0.h, t.p, t.m, IF t.m = 1 THEN None ELSE i0.v, <<>>, TRUE)
    : i0 \in {FastPolynom_init(h, t.irr)} } : TRUE)
    : t \in {FieldTable[g]} } : TRUE)

\* The objects of a state: 1 is the modulus polynomial, 2 the polynomial
\* of a, 3 the polynomial of r unless r is a.
Heap == <<irr, a, r>>

IdOf(reg) == IF reg = "a" \/ same THEN 2 ELSE 3

\* The caller's descriptor
TheField ==
    Field(FieldTable[fld].p, FieldTable[fld].m,
          IF FieldTable[fld].m = 1 THEN None ELSE 1)

\* The mappings FastPolynom is constructed from
Inputs ==
    LET degs == 0..(FieldTable[fld].m - 1 + DegSlack)
        coefs == (0 - CoefSlack)..(FieldTable[fld].p - 1 + CoefSlack)
    IN  UNION {[S -> coefs] : S \in {T \in SUBSET degs : Cardinality(T) <= MaxTerms}}

\* What the caller remembers of its last call: the operation, which
\* variables were its operands, the mapping given to the constructor, the
\* operands' polynomials before the call, and how the call ended (elem: it
\* returned an element, now r; bv: the boolean it returned).
NoCall ==
    [op |-> "none", lhs |-> "none", rhs |-> "none", other |-> 0, arg |-> EmptyDict,
     pa |-> NoPoly, pb |-> NoPoly, exc |-> "none", operator |-> "", elem |-> FALSE,
     bv |-> FALSE]

NoGF ==
    [made |-> FALSE, p |-> 0, m |-> 0, f |-> EmptyDict, primes |-> <<>>,
     prime_check |-> FALSE, given |-> FALSE, exc |-> "none", irr |-> NoPoly]

Init ==
    \E g \in 1..Len(FieldTable) :
        \E ff \in {NewField(<<>>, g)} :
            \E za \in {FFElement_init(ff.h, ff.v, None)} :
                \E zr \in {FFElement_init(za.h, ff.v, None)} :
                    /\ fld = g
                    /\ irr = zr.h[1]
                    /\ a = zr.h[2]
                    /\ r = zr.h[3]
                    /\ same = FALSE
                    /\ last = NoCall
                    /\ gf = NoGF
                    /\ gx = NoGF

\* The right operand of a call
Operand(h, rhs, g) ==
    CASE rhs \in {"a", "r"} -> Ret(h, Element(TheField, IdOf(rhs)))
      [] rhs = "other" -> (CHOOSE val \in { gen_one(ff.h, ff.v) : ff \in {NewField(h, g)} } : TRUE)
      [] rhs = "FastPolynom" -> (CHOOSE val \in { Ret(f.h, BarePolynom(f.v))
                                     : f \in {FastPolynom_init(h, (0 :> 1))} } : TRUE)
      [] rhs = "int" -> Ret(h, BareInt)

\* The left operand of a call
Self(lhs) == Element(TheField, IdOf(lhs))

Idle == last.op = "none"

\* The state a call leaves behind
Becomes(o) ==
    /\ irr' = o.irr
    /\ a' = o.a
    /\ r' = o.r
    /\ same' = o.same
    /\ last' = o.last
    /\ UNCHANGED <<fld, gf, gx>>

\* The state after a call that ended as res in heap res.h; elem: res.v is
\* an element, which r is assigned.  A call that raises assigns nothing.
After(res, elem, call) ==
    [irr |-> res.h[1], a |-> res.h[2],
     r |-> IF elem THEN res.h[res.v.container] ELSE res.h[IdOf("r")],
     same |-> same /\ ~elem,
     last |-> [call EXCEPT !.exc = res.exc, !.operator = res.operator, !.elem = elem]]

\* The calls that return a boolean
BoolOps == {"eq", "is_zero"}

\* The state after r = lhs op rhs, where the right operand was x.v in heap
\* x.h and the call ended as res (a call that returns a boolean assigns
\* nothing)
Call(op, lhs, rhs, g, x, res) ==
    After(res, res.exc = "none" /\ op \notin BoolOps,
          [NoCall EXCEPT !.op = op, !.lhs = lhs, !.rhs = rhs, !.other = g,
                         !.pa = Heap[IdOf(lhs)],
                         !.pb = IF x.v.container = None THEN NoPoly
                                ELSE x.h[x.v.container],
                         !.bv = res.exc = "none" /\ op \in BoolOps /\ res.v])

Regs == {"a", "r"}

\* The operands of a binary call: <<left, right, g>>, g the table entry of
\* the other descriptor.
Operands ==
    {<<l, x, 0>> : l \in Regs, x \in Regs}
        \cup {<<"a", "FastPolynom", 0>>, <<"a", "int", 0>>}
        \cup {<<"a", "other", g>> : g \in 1..Len(FieldTable)}

\* r = lhs + rhs
Add ==
    \E o \in Operands : Idle /\ \E x \in {Operand(Heap, o[2], o[3])} :
        \E res \in {FFElement_add(x.h, Self(o[1]), x.v)} :
            \E n \in {Call("add", o[1], o[2], o[3], x, res)} : Becomes(n)

\* r = lhs - rhs
Sub ==
    \E o \in Operands : Idle /\ \E x \in {Operand(Heap, o[2], o[3])} :
        \E res \in {FFElement_sub(x.h, Self(o[1]), x.v)} :
            \E n \in {Call("sub", o[1], o[2], o[3], x, res)} : Becomes(n)

\* r = lhs * rhs
Mul ==
    \E o \in Operands : Idle /\ \E x \in {Operand(Heap, o[2], o[3])} :
        \E res \in {FFElement_mul(x.h, Self(o[1]), x.v)} :
            \E n \in {Call("mul", o[1], o[2], o[3], x, res)} : Becomes(n)

\* r = lhs / rhs
TrueDiv ==
    \E o \in Operands : Idle /\ \E x \in {Operand(Heap, o[2], o[3])} :
        \E res \in {FFElement_truediv(x.h, Self(o[1]), x.v)} :
            \E n \in {Call("truediv", o[1], o[2], o[3], x, res)} : Becomes(n)

\* r = lhs // rhs
FloorDiv ==
    \E o \in Operands : Idle /\ \E x \in {Operand(Heap, o[2], o[3])} :
        \E res \in {FFElement_floordiv(x.h, Self(o[1]), x.v)} :
            \E n \in {Call("floordiv", o[1], o[2], o[3], x, res)} : Becomes(n)

\* r = lhs % rhs
Mod ==
    \E o \in Operands : Idle /\ \E x \in {Operand(Heap, o[2], o[3])} :
        \E res \in {FFElement_mod(x.h, Self(o[1]), x.v)} :
            \E n \in {Call("mod", o[1], o[2], o[3], x, res)} : Becomes(n)

\* lhs == rhs, rhs an element
Eq ==
    \E o \in Operands :
        /\ Idle
        /\ o[2] \in {"a", "r", "other"}
        /\ \E x \in {Operand(Heap, o[2], o[3])} :
               \E res \in {FFElement_eq(x.h, Self(o[1]), x.v)} :
                   \E n \in {Call("eq", o[1], o[2], o[3], x, res)} : Becomes(n)

\* r = lhs.inverse()
Inverse ==
    \E lhs \in Regs : Idle /\ \E x \in {Ret(Heap, BareInt)} :
        \E res \in {FFElement_inverse(x.h, Self(lhs))} :
            \E n \in {Call("inverse", lhs, "none", 0, x, res)} : Becomes(n)

\* lhs.is_zero()
IsZero ==
    \E lhs \in Regs : Idle /\ \E x \in {Ret(Heap, BareInt)} :
        \E res \in {is_zero(x.h, Self(lhs))} :
            \E n \in {Call("is_zero", lhs, "none", 0, x, res)} : Becomes(n)

\* r = FFElement(TheField, FastPolynom(d))
NewElement(d) ==
    (CHOOSE val \in { (CHOOSE val \in {
        After(res, res.exc = "none", [NoCall EXCEPT !.op = "construct", !.arg = d])
    : res \in {FFElement_init(f.h, TheField, f.v)} } : TRUE)
    : f \in {FastPolynom_init(Heap, d)} } : TRUE)

Construct == \E d \in Inputs : Idle /\ \E n \in {NewElement(d)} : Becomes(n)

\* r = FFElement(TheField)
Zero ==
    /\ Idle
    /\ \E n \in {After(FFElement_init(Heap, TheField, None), TRUE,
                       [NoCall EXCEPT !.op = "zero"])} : Becomes(n)

\* r = FFElement.gen_one(TheField)
GenOne ==
    /\ Idle
    /\ \E n \in {After(gen_one(Heap, TheField), TRUE,
                       [NoCall EXCEPT !.op = "gen_one"])} : Becomes(n)

\* a = r
Keep ==
    /\ Idle
    /\ ~same
    /\ a' = r
    /\ same' = TRUE
    /\ UNCHANGED <<fld, irr, r, last, gf, gx>>

\* The caller is done with the outcome of its last call
Forget ==
    /\ ~Idle
    /\ last' = NoCall
    /\ UNCHANGED <<fld, irr, a, r, same, gf, gx>>

Next ==
    \/ Construct
    \/ Zero
    \/ GenOne
    \/ Keep
    \/ Add
    \/ Sub
    \/ Mul
    \/ TrueDiv
    \/ FloorDiv
    \/ Mod
    \/ Eq
    \/ Inverse
    \/ IsZero
    \/ Forget

Spec == Init /\ [][Next]_vars

\* ------------------------------------------------------------------------
\* A caller that builds descriptors, one at a time: gf is the outcome of its
\* last GF(...) call, with the arguments it passed.
\* ------------------------------------------------------------------------

\* Arguments of GF(...): p up to GFMaxP, m up to GFMaxM, a polynomial of
\* up to GFMaxTerms terms with coefficients 1..GFMaxCoef at degrees up to
\* GFMaxM, and one of the lists GFPrimes (the empty list standing for None).
GFMaxP == 5

\* The smallest composite that is a multiple of neither 2 nor 3
GFSquareP == 25

GFPs == (0..GFMaxP) \cup {GFSquareP}

GFMaxM == 4

GFMaxCoef == 2

GFMaxTerms == 3

GFPrimes == {<<>>, <<1>>, <<2>>, <<1, 2>>, <<4>>}

GFInputs ==
    UNION {[S -> 1..GFMaxCoef] :
              S \in {T \in SUBSET (0..GFMaxM) : Cardinality(T) <= GFMaxTerms}}

InitGF ==
    /\ fld = 1
    /\ irr = NoPoly
    /\ a = NoPoly
    /\ r = NoPoly
    /\ same = FALSE
    /\ last = NoCall
    /\ gf = NoGF
    /\ gx = NoGF

\* GF(p, m, (FastPolynom(f), primes), prime_check)
NewGF(p, m, f, primes, prime_check) ==
    (CHOOSE val \in { (CHOOSE val \in {
        [made |-> res.exc = "none", p |-> p, m |-> m, f |-> f, primes |-> primes,
         prime_check |-> prime_check, given |-> TRUE, exc |-> res.exc,
         irr |-> res.h[i0.v]]
    : res \in {GF_init(i0.h, p, m, i0.v, primes, prime_check)} } : TRUE)
    : i0 \in {FastPolynom_init(<<>>, f)} } : TRUE)

\* GF(p, m, prime_check=prime_check): irr is (None, None)
NewGFNoIrr(p, m, prime_check) ==
    (CHOOSE val \in {
        [made |-> res.exc = "none", p |-> p, m |-> m, f |-> EmptyDict, primes |-> <<>>,
         prime_check |-> prime_check, given |-> FALSE, exc |-> res.exc,
         irr |-> NoPoly]
    : res \in {GF_init(<<>>, p, m, None, <<>>, prime_check)} } : TRUE)

Descriptor ==
    /\ gf = NoGF
    /\ \E p \in GFPs, m \in 0..GFMaxM, f \in GFInputs, primes \in GFPrimes,
          prime_check \in BOOLEAN :
          gf' = NewGF(p, m, f, primes, prime_check)
    /\ UNCHANGED <<fld, irr, a, r, same, last, gx>>

DescriptorNoIrr ==
    /\ gf = NoGF
    /\ \E p \in GFPs, m \in 0..GFMaxM, prime_check \in BOOLEAN :
          gf' = NewGFNoIrr(p, m, prime_check)
    /\ UNCHANGED <<fld, irr, a, r, same, last, gx>>

\* The caller drops the descriptor
Drop ==
    /\ gf # NoGF
    /\ gf' = NoGF
    /\ UNCHANGED <<fld, irr, a, r, same, last, gx>>

NextGF ==
    \/ Descriptor
    \/ DescriptorNoIrr
    \/ Drop

SpecGF == InitGF /\ [][NextGF]_vars

\* ------------------------------------------------------------------------
\* A caller that compares descriptors: gf and gx are two descriptors it
\* built, last the outcome of gf == gx or gf != gx.
\* ------------------------------------------------------------------------

\* The GF(...) calls of this caller, as <<p, m, f, given>>: GF(p) when no
\* polynomial is given, else GF(p, m, (FastPolynom(f), None)).
GFTable ==
    << <<2, 1, EmptyDict, FALSE>>,
       <<3, 1, EmptyDict, FALSE>>,
       <<2, 1, (0 :> 1), TRUE>>,
       <<2, 2, (0 :> 1 @@ 1 :> 1 @@ 2 :> 1), TRUE>>,
       <<2, 2, (0 :> 1 @@ 1 :> 3 @@ 2 :> 1), TRUE>>,
       <<3, 2, (0 :> 1 @@ 2 :> 1), TRUE>>,
       <<3, 2, (0 :> 1 @@ 1 :> 3 @@ 2 :> 1), TRUE>>,
       <<3, 2, (0 :> 2 @@ 1 :> 1 @@ 2 :> 1), TRUE>>,
       <<2, 3, (0 :> 1 @@ 1 :> 1 @@ 3 :> 1), TRUE>>,
       <<2, 3, (0 :> 1 @@ 2 :> 1 @@ 3 :> 1), TRUE>> >>

NewGFOf(t) ==
    IF t[4] THEN NewGF(t[1], t[2], t[3], <<>>, TRUE)
    ELSE NewGFNoIrr(t[1], t[2], TRUE)

\* The GF object of a descriptor the caller holds, its modulus polynomial
\* (if it was given one) being object id
FieldOf(g, id) == Field(g.p, g.m, IF g.given THEN id ELSE None)

\* gf = GF(...)
Left ==
    /\ Idle
    /\ gf = NoGF
    /\ \E n \in 1..Len(GFTable) : gf' = NewGFOf(GFTable[n])
    /\ UNCHANGED <<fld, irr, a, r, same, last, gx>>

\* gx = GF(...)
Right ==
    /\ Idle
    /\ gx = NoGF
    /\ \E n \in 1..Len(GFTable) : gx' = NewGFOf(GFTable[n])
    /\ UNCHANGED <<fld, irr, a, r, same, last, gf>>

\* The state after a comparison of gf with gx that ended as res
Compared(op, res) ==
    /\ gf' = [gf EXCEPT !.irr = res.h[1]]
    /\ gx' = [gx EXCEPT !.irr = res.h[2]]
    /\ last' = [NoCall EXCEPT !.op = op, !.exc = res.exc,
                              !.bv = res.exc = "none" /\ res.v]
    /\ UNCHANGED <<fld, irr, a, r, same>>

\* gf == gx
DescriptorEq ==
    /\ Idle
    /\ gf.made /\ gx.made
    /\ \E res \in {GF_eq(<<gf.irr, gx.irr>>, FieldOf(gf, 1), FieldOf(gx, 2))} :
           Compared("gf_eq", res)

\* gf != gx
DescriptorNe ==
    /\ Idle
    /\ gf.made /\ gx.made
    /\ \E res \in {GF_ne(<<gf.irr, gx.irr>>, FieldOf(gf, 1), FieldOf(gx, 2))} :
           Compared("gf_ne", res)

\* The caller drops both descriptors
DropBoth ==
    /\ Idle
    /\ gf # NoGF \/ gx # NoGF
    /\ gf' = NoGF
    /\ gx' = NoGF
    /\ UNCHANGED <<fld, irr, a, r, same, last>>

NextEq ==
    \/ Left
    \/ Right
    \/ DescriptorEq
    \/ DescriptorNe
    \/ Forget
    \/ DropBoth

SpecEq == InitGF /\ [][NextEq]_vars

\* ------------------------------------------------------------------------
\* A caller of util.egcd: it holds two integers a > b > 0 and calls
\* egcd(a, b) once.  Here last is the pair of arguments and, once the call
\* was made, its outcome: the exception or the pair returned.
\* ------------------------------------------------------------------------

EgcdMax == 16

EgcdArgs(x, y) == [op |-> "none", arg |-> <<x, y>>, exc |-> "none", out |-> NonePair]

InitEgcd ==
    /\ fld = 1
    /\ irr = NoPoly
    /\ a = NoPoly
    /\ r = NoPoly
    /\ same = FALSE
    /\ gf = NoGF
    /\ gx = NoGF
    /\ \E x \in 2..EgcdMax : \E y \in 1..(x - 1) : last = EgcdArgs(x, y)

\* out = egcd(a, b)
Egcd ==
    /\ Idle
    /\ \E res \in {egcd(last.arg[1], last.arg[2])} :
           last' = [last EXCEPT !.op = "egcd", !.exc = res.exc,
                                !.out = IF res.exc = "none" THEN res.v ELSE NonePair]
    /\ UNCHANGED <<fld, irr, a, r, same, gf, gx>>

NextEgcd == Egcd

SpecEgcd == InitEgcd /\ [][NextEgcd]_vars

\* ------------------------------------------------------------------------
\* A caller of FastPolynom: it holds one polynomial, a, and calls its
\* methods in any order.  Here last is the outcome of the last call: its
\* arguments, the polynomial before the call, the exception, and the value
\* returned (n an integer, keys a list, bv a boolean, s a string).
\* ------------------------------------------------------------------------

\* Degrees 0..FPMaxDeg, values -FPMaxNeg..FPMaxVal, evaluation points
\* -FPMaxX..FPMaxX, moduli FPModuli.
FPMaxDeg == 2

FPMaxNeg == 1

FPMaxVal == 2

FPMaxX == 2

FPModuli == {0, 2, 3}

FPInputs == UNION {[S -> (0 - FPMaxNeg)..FPMaxVal] : S \in SUBSET (0..FPMaxDeg)}

FPNoCall ==
    [op |-> "none", arg |-> <<>>, pa |-> NoPoly, exc |-> "none", n |-> 0,
     keys |-> <<>>, bv |-> FALSE, s |-> <<>>]

InitFP ==
    /\ fld = 1
    /\ irr = NoPoly
    /\ a = NoPoly
    /\ r = NoPoly
    /\ same = FALSE
    /\ gf = NoGF
    /\ gx = NoGF
    /\ last = FPNoCall

\* The state after a.op(arg) ended as res, out being the value returned
FPCalled(op, arg, res, out) ==
    /\ a' = res.h[1]
    /\ last' = [out EXCEPT !.op = op, !.arg = arg, !.pa = a, !.exc = res.exc]
    /\ UNCHANGED <<fld, irr, r, same, gf, gx>>

\* a = FastPolynom(d)
FPConstruct ==
    /\ Idle
    /\ \E d \in FPInputs : \E res \in {FastPolynom_init(<<>>, d)} :
           FPCalled("init", d, res, FPNoCall)

\* a[i] = v
FPSetItem ==
    /\ Idle
    /\ \E i \in (0 - 1)..FPMaxDeg, v \in (0 - FPMaxNeg)..FPMaxVal :
           \E res \in {setitem(<<a>>, 1, i, v)} :
               FPCalled("setitem", <<i, v>>, res, FPNoCall)

\* a[i]
FPGetItem ==
    /\ Idle
    /\ \E i \in (0 - 1)..(FPMaxDeg + 1) : \E res \in {getitem(<<a>>, 1, i)} :
           FPCalled("getitem", <<i>>, res, [FPNoCall EXCEPT !.n = res.v])

\* a.get_keys(rev)
FPGetKeys ==
    /\ Idle
    /\ \E rev \in BOOLEAN : \E res \in {get_keys(<<a>>, 1, rev)} :
           FPCalled("get_keys", <<rev>>, res, [FPNoCall EXCEPT !.keys = res.v])

\* a == FastPolynom(d)
FPEq ==
    /\ Idle
    /\ \E d \in FPInputs : \E x \in {FastPolynom_init(<<a>>, d)} :
           \E res \in {FastPolynom_eq(x.h, 1, x.v)} :
               FPCalled("eq", d, res, [FPNoCall EXCEPT !.bv = res.v])

\* a == a
FPEqSelf ==
    /\ Idle
    /\ \E res \in {FastPolynom_eq(<<a>>, 1, 1)} :
           FPCalled("eq_self", <<>>, res, [FPNoCall EXCEPT !.bv = res.v])

\* str(a)
FPStr ==
    /\ Idle
    /\ \E res \in {FastPolynom_str(<<a>>, 1)} :
           FPCalled("str", <<>>, res, [FPNoCall EXCEPT !.s = res.v])

\* a.compute(x)
FPCompute ==
    /\ Idle
    /\ \E x \in (0 - FPMaxX)..FPMaxX : \E res \in {compute(<<a>>, 1, x)} :
           FPCalled("compute", <<x>>, res, [FPNoCall EXCEPT !.n = res.v])

\* a.broadcast_modulo(p)
FPBroadcastModulo ==
    /\ Idle
    /\ \E p \in FPModuli : \E res \in {broadcast_modulo(<<a>>, 1, p)} :
           FPCalled("broadcast_modulo", <<p>>, res, FPNoCall)

\* a = a.deepcopy()
FPDeepCopy ==
    /\ Idle
    /\ \E c \in {deepcopy(<<a>>, 1)} :
           \E res \in {Ret(<<c.h[c.v]>>, 0)} :
               FPCalled("deepcopy", <<>>, res, FPNoCall)

\* a.get_max_degree()
FPGetMaxDegree ==
    /\ Idle
    /\ \E res \in {get_max_degree(<<a>>, 1)} :
           FPCalled("get_max_degree", <<>>, res, [FPNoCall EXCEPT !.n = res.v])

\* The caller is done with the outcome of its last call
FPForget ==
    /\ ~Idle
    /\ last' = FPNoCall
    /\ UNCHANGED <<fld, irr, a, r, same, gf, gx>>

NextFP ==
    \/ FPConstruct
    \/ FPSetItem
    \/ FPGetItem
    \/ FPGetKeys
    \/ FPEq
    \/ FPEqSelf
    \/ FPStr
    \/ FPCompute
    \/ FPBroadcastModulo
    \/ FPDeepCopy
    \/ FPGetMaxDegree
    \/ FPForget

SpecFP == InitFP /\ [][NextFP]_vars

\* ------------------------------------------------------------------------
\* Reference arithmetic of polynomials over Z_p, against which the outcomes
\* of the calls are compared.  A polynomial is a function from the degrees
\* 0..n to its coefficients in 0..p-1.
\* ------------------------------------------------------------------------

FieldP == FieldTable[fld].p

FieldM == FieldTable[fld].m

Coef(d, i) == IF i \in DOMAIN d THEN d[i] ELSE 0

\* The mapping d as a polynomial over Z_p on the degrees 0..n
Dense(d, n, p) == [i \in 0..n |-> Coef(d, i) % p]

\* The degree of a polynomial, -1 for the zero polynomial
DegreeOf(v) ==
    IF \A i \in DOMAIN v : v[i] = 0 THEN 0 - 1
    ELSE SetMax({i \in DOMAIN v : v[i] # 0})

\* The degree over Z_p of a mapping
DegreeModP(d, p) ==
    IF \A i \in DOMAIN d : d[i] % p = 0 THEN 0 - 1
    ELSE SetMax({i \in DOMAIN d : d[i] % p # 0})

\* The mapping that stores the non-zero coefficients of v and nothing else
Sparse(v) == DictOn(v, {i \in DOMAIN v : v[i] # 0})

RECURSIVE ConvSum(_, _, _, _)
ConvSum(u, v, k, i) ==
    IF i > k THEN 0
    ELSE Coef(u, i) * Coef(v, k - i) + ConvSum(u, v, k, i + 1)

\* The product of u and v on the degrees 0..n
Conv(u, v, n, p) == [k \in 0..n |-> ConvSum(u, v, k, 0) % p]

InverseModP(c, p) == CHOOSE y \in 1..(p - 1) : (c * y) % p = 1

\* The remainder of v on division by f, p prime and f not zero
RECURSIVE Remainder(_, _, _)
Remainder(v, f, p) ==
    LET dv == DegreeOf(v)
        df == DegreeOf(f)
    IN  IF dv < df THEN v
        ELSE LET q == (v[dv] * InverseModP(f[df], p)) % p
                 w == [i \in DOMAIN v |->
                          IF i >= dv - df THEN (v[i] - q * Coef(f, i - (dv - df))) % p
                          ELSE v[i]]
             IN  Remainder(Sparse(w) @@ [i \in DOMAIN v |-> 0], f, p)

\* The representative of the polynomial v in the caller's field
Reduced(v) ==
    IF FieldM = 1 THEN v
    ELSE Remainder(v, Dense(irr.container, FieldM, FieldP), FieldP)

\* The product of two elements of the caller's field
RefProduct(da, db) ==
    Sparse(Reduced(Conv(da, db, 2 * (FieldM - 1), FieldP)))

\* The sum (sign = 1) and difference (sign = -1) of two elements
RefSum(da, db, sign) ==
    Sparse([i \in 0..(FieldM - 1) |-> (Coef(da, i) + sign * Coef(db, i)) % FieldP])

\* The last call had an element of the caller's field as right operand
SameFieldOperand ==
    \/ last.rhs \in {"a", "r"}
    \/ last.rhs = "other" /\ FieldTable[last.other] = FieldTable[fld]

\* The last call had an element of a different descriptor as right operand
OtherFieldOperand ==
    /\ last.rhs = "other"
    /\ \/ FieldTable[last.other].p # FieldTable[fld].p
       \/ FieldTable[last.other].m # FieldTable[fld].m
       \/ FieldTable[last.other].irr # FieldTable[fld].irr

NonZero(poly) == \E k \in DOMAIN poly.container : poly.container[k] % FieldP # 0

\* A polynomial in canonical form: no degree m or above, every stored
\* coefficient in 0..p-1
CanonicalPoly(poly) ==
    \A k \in DOMAIN poly.container :
        k \in 0..(FieldM - 1) /\ poly.container[k] \in 0..(FieldP - 1)

\* lhs * rhs == FFElement.gen_one(TheField) for two polynomials of elements
ProductIsOne(pl, pr) ==
    LET h0  == <<irr, pl, pr>>
        m   == FFElement_mul(h0, Element(TheField, 2), Element(TheField, 3))
        one == gen_one(m.h, TheField)
        e   == FFElement_eq(one.h, m.v, one.v)
    IN  m.exc = "none" /\ one.exc = "none" /\ e.exc = "none" /\ e.v

\* C1: inverse() of a non-zero element returns, without error, an element
\* of the field whose product with the element == gen_one(field).
C1_InverseLaw ==
    (last.op = "inverse" /\ NonZero(last.pa))
        => /\ last.exc = "none"
           /\ last.elem
           /\ ProductIsOne(last.pa, r)

\* C2: every element returned without error by the constructor, gen_one,
\* +, -, *, /, //, % or inverse, after any sequence of such calls, has no
\* degree m or above and every stored coefficient in [0, p-1].
C2_CanonicalForm ==
    /\ CanonicalPoly(a)
    /\ CanonicalPoly(r)
    /\ last.elem => get_max_degree(Heap, 3).exc = "none" /\ get_max_degree(Heap, 3).v < FieldM

\* C2 happens: a product whose convolution reaches degree m or above was
\* returned by *, in an extension field.
C2_Witness ==
    /\ last.op = "mul" /\ last.elem /\ FieldM > 1
    /\ DegreeModP(last.pa.container, FieldP) + DegreeModP(last.pb.container, FieldP) >= FieldM
    /\ r.container # EmptyDict

\* C3: for elements a, b of the same field a * b returns the reference
\* product: the convolution of the coefficients mod p, reduced (when m > 1)
\* modulo the field's modulus polynomial.
C3_Product ==
    (last.op = "mul" /\ SameFieldOperand)
        => /\ last.exc = "none"
           /\ last.elem
           /\ r.container = RefProduct(last.pa.container, last.pb.container)

\* C3 happens: (1 + x + x^2) * x returned 1 + x^2 in GF(2^3)/(x^3 + x + 1).
C3_Witness ==
    /\ last.op = "mul" /\ last.elem
    /\ FieldTable[fld] = [p |-> 2, m |-> 3, irr |-> (0 :> 1 @@ 1 :> 1 @@ 3 :> 1)]
    /\ last.pa.container = (0 :> 1 @@ 1 :> 1 @@ 2 :> 1)
    /\ last.pb.container = (1 :> 1)
    /\ r.container = (0 :> 1 @@ 2 :> 1)

\* C4: for elements a, b of the same field a + b (a - b) returns the
\* element whose coefficient at every degree i below m is (a_i + b_i) mod p
\* ((a_i - b_i) mod p), with no other degree occupied.
C4_SumDifference ==
    /\ (last.op = "add" /\ SameFieldOperand)
          => /\ last.exc = "none"
             /\ last.elem
             /\ r.container = RefSum(last.pa.container, last.pb.container, 1)
    /\ (last.op = "sub" /\ SameFieldOperand)
          => /\ last.exc = "none"
             /\ last.elem
             /\ r.container = RefSum(last.pa.container, last.pb.container, 0 - 1)

\* C4 happens: a difference that wraps around, 1 - 2 == 2 in GF(3).
C4_Witness ==
    /\ last.op = "sub" /\ last.elem /\ FieldP = 3 /\ FieldM = 1
    /\ last.pa.container = (0 :> 1)
    /\ last.pb.container = (0 :> 2)
    /\ r.container = (0 :> 2)

\* The last call divided by the zero element FFElement(field): a / z,
\* a // z or z.inverse()
DividedByZero ==
    \/ last.op \in {"truediv", "floordiv"} /\ last.rhs \in {"a", "r"}
          /\ last.pb.container = EmptyDict
    \/ last.op = "inverse" /\ last.pa.container = EmptyDict

\* C5: a / z, a // z and z.inverse(), z the zero element FFElement(field),
\* fail with FFOperationException and return no element.
C5_DivisionByZero ==
    DividedByZero => last.exc = "FFOperationException" /\ ~last.elem

OperatorOf(op) ==
    CASE op = "add" -> "+"
      [] op = "sub" -> "-"
      [] op = "mul" -> "*"
      [] op = "truediv" -> "/"
      [] OTHER -> ""

\* C7: +, -, * and / with a right operand that is no FFElement (a bare
\* FastPolynom, an integer) fail with FFOperationException carrying the
\* operator, and return no element.
C7_NotAnElement ==
    (last.op \in {"add", "sub", "mul", "truediv"} /\ last.rhs \in {"FastPolynom", "int"})
        => /\ last.exc = "FFOperationException"
           /\ last.operator = OperatorOf(last.op)
           /\ ~last.elem

\* C7 happens: a * FastPolynom({0: 1}) failed with FFOperationException("*").
C7_Witness ==
    /\ last.op = "mul" /\ last.rhs = "FastPolynom"
    /\ last.exc = "FFOperationException" /\ last.operator = "*"

\* C8: in an extension field the constructor, given a polynomial whose
\* degree over Z_p is m or above, returns the element that is its remainder
\* modulo the field's modulus polynomial.
C8_ConstructorReduces ==
    (last.op = "construct" /\ FieldM > 1 /\ DegreeModP(last.arg, FieldP) >= FieldM)
        => /\ last.exc = "none"
           /\ last.elem
           /\ r.container = Sparse(Reduced(Dense(last.arg, FieldM - 1 + DegSlack, FieldP)))

\* C9: in a prime field the constructor fails with PrimeFieldNoFitException
\* exactly when the polynomial has degree 1 or above over Z_p, and
\* otherwise returns the residue of its constant term.
C9_PrimeFieldFit ==
    (last.op = "construct" /\ FieldM = 1)
        => IF DegreeModP(last.arg, FieldP) >= 1
           THEN last.exc = "PrimeFieldNoFitException" /\ ~last.elem
           ELSE /\ last.exc = "none"
                /\ last.elem
                /\ Coef(r.container, 0) = Coef(last.arg, 0) % FieldP

\* p is a prime number
Prime(p) == p > 1 /\ \A d \in 2..(p - 1) : p % d # 0

\* The monic polynomials of degree d over Z_p, on the degrees 0..d
Monic(d, p) == {g \in [0..d -> 0..(p - 1)] : g[d] = 1}

\* f, a mapping, is irreducible over Z_p: it is no constant and no monic
\* polynomial of a smaller positive degree divides it
Irreducible(f, p) ==
    LET n == DegreeModP(f, p)
    IN  /\ n >= 1
        /\ \A d \in 1..(n - 1) : \A g \in Monic(d, p) :
               DegreeOf(Remainder(Dense(f, n, p), g, p)) >= 0

\* C10: a descriptor GF(p, m >= 2, (f, primes)) built with a non-empty list
\* of primes, from a polynomial f of degree m over Z_p, has a modulus
\* polynomial that is irreducible over Z_p.
C10_Irreducible ==
    (/\ gf.made /\ gf.given /\ gf.m >= 2 /\ gf.primes # <<>>
     /\ Prime(gf.p) /\ DegreeModP(gf.f, gf.p) = gf.m)
        => Irreducible(gf.f, gf.p)

\* C11: with prime_check enabled, GF(p, m, ...) fails with AssertionError
\* for every p that is not prime and for every m <= 0, and a descriptor is
\* returned only for a prime p and m >= 1.
C11_PrimeCheck ==
    (gf # NoGF /\ gf.prime_check) =>
        /\ (~Prime(gf.p) \/ gf.m <= 0) => gf.exc = "AssertionError"
        /\ gf.made => (Prime(gf.p) /\ gf.m >= 1)

\* C12: the modulus polynomial stored by a successful GF(p, m > 1, (f, ...)),
\* p prime, has degree exactly m over Z_p and every stored coefficient in
\* [0, p-1]; a polynomial f whose degree over Z_p is not m is rejected with
\* AssertionError.
C12_ModulusDegree ==
    (gf # NoGF /\ gf.given /\ gf.m > 1 /\ Prime(gf.p)) =>
        /\ gf.made =>
              /\ DegreeModP(gf.irr.container, gf.p) = gf.m
              /\ \A d \in DOMAIN gf.irr.container :
                     d <= gf.m /\ gf.irr.container[d] \in 0..(gf.p - 1)
        /\ DegreeModP(gf.f, gf.p) # gf.m => gf.exc = "AssertionError"

\* (pa // pb) * pb + pr == pa under the library's operators, for the
\* polynomials of three elements of the caller's field
QuotientIdentity(pa, pb, pr) ==
    (CHOOSE val \in { (CHOOSE val \in { (CHOOSE val \in { (CHOOSE val \in {
        /\ q.exc = "none" /\ m.exc = "none" /\ s.exc = "none"
        /\ e.exc = "none" /\ e.v
    : e \in {IF s.exc # "none" THEN s
             ELSE FFElement_eq(s.h, s.v, Element(TheField, 2))} } : TRUE)
    : s \in {IF m.exc # "none" THEN m
             ELSE FFElement_add(m.h, m.v, Element(TheField, 4))} } : TRUE)
    : m \in {IF q.exc # "none" THEN q
             ELSE FFElement_mul(q.h, q.v, Element(TheField, 3))} } : TRUE)
    : q \in {FFElement_floordiv(<<irr, pa, pb, pr>>, Element(TheField, 2),
                                Element(TheField, 3))} } : TRUE)

\* C13: for elements a and b of the same field, b non-zero, a // b and
\* a % b return elements without error, (a // b) * b + (a % b) == a, and
\* the degree of a % b is less than the degree of b.
C13_DivisionIdentity ==
    /\ (last.op = "floordiv" /\ SameFieldOperand /\ NonZero(last.pb))
          => last.exc = "none" /\ last.elem
    /\ (last.op = "mod" /\ SameFieldOperand /\ NonZero(last.pb))
          => /\ last.exc = "none"
             /\ last.elem
             /\ QuotientIdentity(last.pa, last.pb, r)
             /\ DegreeModP(r.container, FieldP) < DegreeModP(last.pb.container, FieldP)

\* pl == pr under FFElement.__eq__, for the polynomials of two elements of
\* the caller's field
ElementsEqual(pl, pr) ==
    (CHOOSE val \in {
        e.exc = "none" /\ e.v
    : e \in {FFElement_eq(<<irr, pl, pr>>, Element(TheField, 2),
                          Element(TheField, 3))} } : TRUE)

\* C14: for every element a of the field, constructed or returned by an
\* operation, a + FFElement(field) == a and FFElement(field) + a == a under
\* the library's ==.
C14_AdditiveIdentity ==
    /\ (last.op = "add" /\ last.rhs \in Regs /\ last.pb = NoPoly)
          => last.exc = "none" /\ last.elem /\ ElementsEqual(r, last.pa)
    /\ (last.op = "add" /\ last.rhs \in Regs /\ last.pa = NoPoly)
          => last.exc = "none" /\ last.elem /\ ElementsEqual(r, last.pb)

\* C15: e.is_zero() returns, without raising, True if and only if the
\* polynomial of e has no occupied degree.
C15_IsZero ==
    last.op = "is_zero"
        => /\ last.exc = "none"
           /\ last.bv <=> (last.pa.container = EmptyDict)

\* C16: in a prime field a % b, b non-zero, returns the element whose value
\* is the integer remainder of the residue of a by the residue of b.
C16_PrimeFieldMod ==
    (last.op = "mod" /\ FieldM = 1 /\ SameFieldOperand /\ NonZero(last.pb))
        => /\ last.exc = "none"
           /\ last.elem
           /\ Coef(r.container, 0) =
                 (Coef(last.pa.container, 0) % FieldP)
                     % (Coef(last.pb.container, 0) % FieldP)
           /\ DOMAIN r.container \subseteq {0}

\* Two descriptors have the same modulus polynomial: none was given to
\* either, or the two stored polynomials have the same coefficients in Z_p
SameModulus ==
    \/ ~gf.given /\ ~gx.given
    \/ /\ gf.given /\ gx.given
       /\ \A i \in DOMAIN gf.irr.container \cup DOMAIN gx.irr.container :
              Coef(gf.irr.container, i) % gf.p = Coef(gx.irr.container, i) % gf.p

SameDescriptor == gf.p = gx.p /\ gf.m = gx.m /\ SameModulus

\* C17: gf == gx returns True if and only if the two descriptors have the
\* same p, the same m and the same modulus polynomial (none for prime
\* fields), and gf != gx returns the negation.
C17_DescriptorEquality ==
    /\ last.op = "gf_eq" => last.exc = "none" /\ (last.bv <=> SameDescriptor)
    /\ last.op = "gf_ne" => last.exc = "none" /\ (last.bv <=> ~SameDescriptor)

\* The greatest common divisor of x >= y > 0
Gcd(x, y) == SetMax({d \in 1..y : x % d = 0 /\ y % d = 0})

\* C18: for a > b > 0 with gcd(a, b) = 1, b = 1 included, util.egcd(a, b)
\* returns a pair of integers whose second component t has (t * b) mod a = 1.
C18_Egcd ==
    (last.op = "egcd" /\ Gcd(last.arg[1], last.arg[2]) = 1)
        => /\ last.exc = "none"
           /\ ~last.out.none
           /\ (last.out.t * last.arg[2]) % last.arg[1] = 1

\* x to the power k, k >= 0
RECURSIVE Power(_, _)
Power(x, k) == IF k = 0 THEN 1 ELSE x * Power(x, k - 1)

\* The value at x of the polynomial with coefficients d: the sum of
\* d[k] * x^k over the occupied degrees k
RECURSIVE PolyValue(_, _, _)
PolyValue(d, S, x) ==
    IF S = {} THEN 0
    ELSE LET k == CHOOSE y \in S : TRUE
         IN  d[k] * Power(x, k) + PolyValue(d, S \ {k}, x)

\* C19: f.compute(x) returns the sum of f[d] * x^d over the occupied
\* degrees d of f, for polynomials with and without gaps and for positive
\* and negative x.
C19_Compute ==
    last.op = "compute"
        => /\ last.exc = "none"
           /\ last.n = PolyValue(last.pa.container, DOMAIN last.pa.container,
                                 last.arg[1])

\* C20: in every state of a FastPolynom reached by construction,
\* __setitem__, __getitem__, get_keys, ==, str, compute and broadcast_modulo
\* calls, get_max_degree() returns, without raising, the largest occupied
\* degree, and -1 when no degree is occupied.
C20_MaxDegree ==
    last.op = "get_max_degree"
        => /\ last.exc = "none"
           /\ last.n = IF DOMAIN last.pa.container = {} THEN 0 - 1
                       ELSE SetMax(DOMAIN last.pa.container)

\* C21: after any sequence of FastPolynom(mapping), __setitem__, deepcopy
\* and broadcast_modulo(p) calls no degree is stored with coefficient 0, and
\* get_max_degree() of the polynomial left by broadcast_modulo(p), p > 0, is
\* its degree over Z_p.
C21_NoZeroEntries ==
    /\ \A k \in DOMAIN a.container : a.container[k] # 0
    /\ (last.op = "get_max_degree" /\ last.exc = "none")
          => last.n = DegreeOf(last.pa.container)

\* The key cache of a polynomial is valid: cached_keys is the ascending
\* list of the stored degrees
CacheValid(poly) == poly.cache => poly.cached_keys = SortedList(DOMAIN poly.container)

\* C22: in every state of a FastPolynom reached by __setitem__ writes that
\* add, overwrite or delete a degree, interleaved with get_keys,
\* get_max_degree, compute, == and broadcast_modulo, a set cache flag means
\* that cached_keys is the ascending list of the stored degrees, and
\* get_keys returns that list.
C22_CacheValid ==
    /\ CacheValid(a)
    /\ (last.op = "get_keys" /\ last.exc = "none")
          => last.keys = SortedList(DOMAIN last.pa.container)

\* C22 happens: get_keys ran on a polynomial whose cache a write had
\* invalidated, and replaced the list cached before the write.
C22_Witness ==
    /\ last.op = "get_keys"
    /\ ~last.pa.cache
    /\ last.pa.cached_keys # <<>>
    /\ a.cache
    /\ a.cached_keys # last.pa.cached_keys
    /\ last.keys = a.cached_keys

\* The calls that take elements and return an element
Arithmetic == {"add", "sub", "mul", "truediv", "floordiv", "mod", "inverse"}

\* The last call was an arithmetic operation on canonical elements of the
\* caller's field
CanonicalCall ==
    /\ last.op \in Arithmetic
    /\ last.op = "inverse" \/ SameFieldOperand
    /\ CanonicalPoly(last.pa)
    /\ CanonicalPoly(last.pb)

\* The modulus polynomial the descriptor was built with (none in a prime
\* field)
ModulusGiven == IF FieldM = 1 THEN EmptyDict ELSE FieldTable[fld].irr

\* C23: a + b, a - b, a * b, a / b, a // b, a % b and a.inverse() on
\* canonical elements of the same field, whether they return or raise, leave
\* the coefficient mappings of both operands and of the descriptor's
\* modulus polynomial as they were before the call.
C23_InputsUnchanged ==
    CanonicalCall =>
        /\ irr.container = ModulusGiven
        /\ last.lhs = "a" => a.container = last.pa.container
        /\ last.rhs = "a" => a.container = last.pb.container
        /\ (~last.elem /\ last.lhs = "r") => r.container = last.pa.container
        /\ (~last.elem /\ last.rhs = "r") => r.container = last.pb.container

\* C23 happens: inverse() returned an element in an extension field, where
\* it divides the modulus polynomial by the element's polynomial, and the
\* element kept by the caller and the modulus are as before.
C23_Witness ==
    /\ CanonicalCall
    /\ last.op = "inverse" /\ last.lhs = "a" /\ last.elem /\ FieldM > 1
    /\ DegreeOf(last.pa.container) >= 1
    /\ a.container = last.pa.container
    /\ irr.container = ModulusGiven

====
